---- MODULE Spec2Model ----
(***************************************************************************)
(* Model of the StellArts landing-page components: the Hero section with  *)
(* its formatCount helper and the data-fetching Stats widget.             *)
(*                                                                         *)
(* JavaScript values are tagged records, so that undefined, null, numbers *)
(* and objects can be compared with each other.  A number is the rational *)
(* val/den; the double that JavaScript actually holds is the IEEE-754     *)
(* binary64 value nearest to it.  A string is a sequence of fragments:    *)
(* the digits of a converted number one by one, a literal piece of a      *)
(* template as one fragment.                                               *)
(***************************************************************************)
EXTENDS Integers, Sequences, FiniteSets

VARIABLES arg, res, mounted, gen, counts, stats, heroView, statsView, reqs

vars == <<arg, res, mounted, gen, counts, stats, heroView, statsView, reqs>>

compVars == <<mounted, gen, counts, stats, heroView, statsView, reqs>>

\* Largest count handed to formatCount by the formatting harness.
MaxCount == 4200

\* How many times the page (Hero with its Stats child) is displayed.
MaxMounts == 1

---------------------------------------------------------------------------
(* JavaScript values *)

Undefined == [kind |-> "undefined"]

Null == [kind |-> "null"]

Frac(v, d) == [kind |-> "number", val |-> v, den |-> d]

Num(n) == Frac(n, 1)

Obj(f) == [kind |-> "object", fields |-> f]

Malformed == [kind |-> "malformed"]

\* obj.key: undefined when the key is absent.
Get(obj, key) == IF key \in DOMAIN obj.fields THEN obj.fields[key] ELSE Undefined

\* ToBoolean on the values that reach a condition here.
Truthy(v) ==
    CASE v.kind = "undefined" -> FALSE
      [] v.kind = "null" -> FALSE
      [] v.kind = "number" -> v.val # 0
      [] OTHER -> TRUE

---------------------------------------------------------------------------
(* Number to string *)

DigitChar(d) == <<"0", "1", "2", "3", "4", "5", "6", "7", "8", "9">>[d + 1]

RECURSIVE ToString(_)
\* Number::toString of a non-negative integer (below 10^21): its decimal digits.
ToString(n) == IF n < 10 THEN <<DigitChar(n)>>
               ELSE Append(ToString(n \div 10), DigitChar(n % 10))

RECURSIVE Pow2Mod(_, _)
Pow2Mod(k, m) == IF k = 0 THEN 1 % m ELSE (2 * Pow2Mod(k - 1, m)) % m

RECURSIVE OddPart(_)
OddPart(d) == IF d % 2 = 0 THEN OddPart(d \div 2) ELSE d

RECURSIVE TwoAdicity(_)
TwoAdicity(d) == IF d % 2 = 0 THEN 1 + TwoAdicity(d \div 2) ELSE 0

RECURSIVE Exponent(_, _)
\* The binary exponent e of num/den > 0: 2^e <= num/den < 2^(e+1).
Exponent(num, den) ==
    IF num >= 2 * den THEN 1 + Exponent(num, 2 * den)
    ELSE IF num < den THEN Exponent(2 * num, den) - 1
    ELSE 0

\* The sign of double(num/den) - num/den, double() being round-to-nearest
\* binary64.  The double is k / 2^(52-e) with k the integer nearest to
\* M / d5, where M = num * 2^(52-e-v2) and den = 2^v2 * d5 with d5 odd; so
\* the remainder of M modulo d5 tells on which side of num/den the double
\* lies (d5 being odd, k is never half-way).
BinaryError(num, den) ==
    IF num = 0 THEN 0
    ELSE LET d5 == OddPart(den)
             k == 52 - Exponent(num, den) - TwoAdicity(den)
             rem == ((num % d5) * Pow2Mod(k, d5)) % d5
         IN IF rem = 0 THEN 0 ELSE IF 2 * rem < d5 THEN -1 ELSE 1

\* The integer N of Number.prototype.toFixed(1) applied to double(num/den):
\* N / 10 is as close to the double as possible, the larger N on a tie.
\* Where num/den itself is half-way between two tenths, the side on which
\* the double lies decides; elsewhere the double is far closer to num/den
\* than num/den is to a half-way point.
ToFixed1(num, den) ==
    LET q == (10 * num) \div den
        r == (10 * num) % den
    IN IF 2 * r < den THEN q
       ELSE IF 2 * r > den THEN q + 1
       ELSE IF BinaryError(num, den) < 0 THEN q ELSE q + 1

\* x.toFixed(1) as text: integer part, ".", one digit.
ToFixedText(num, den) ==
    LET t == ToFixed1(num, den)
    IN ToString(t \div 10) \o <<".", DigitChar(t % 10)>>

---------------------------------------------------------------------------
(* formatCount *)

formatCountNoZero(n) ==
    IF n.kind = "undefined" THEN <<"Coming soon">>
    ELSE IF n.val >= 1000 THEN ToFixedText(n.val, n.den * 1000) \o <<"K+">>
    ELSE ToString(n.val) \o <<" available">>

formatCountLowThreshold(n) ==
    IF n.kind = "undefined" \/ n.val = 0 THEN <<"Coming soon">>
    ELSE IF n.val >= 100 THEN ToFixedText(n.val, n.den * 1000) \o <<"K+">>
    ELSE ToString(n.val) \o <<" available">>

formatCount(n) ==
    IF n.kind = "undefined" \/ n.val = 0 THEN <<"Coming soon">>
    ELSE IF n.val >= 1000 THEN ToFixedText(n.val, n.den * 1000) \o <<"K+">>
    ELSE ToString(n.val) \o <<" available">>

---------------------------------------------------------------------------
(* The formatting harness: formatCount applied to one input *)

FormatInputs == {Undefined} \cup {Num(n) : n \in 0..MaxCount}

NotFormatted == <<>>

FormatCall ==
    /\ res = NotFormatted
    /\ res' = formatCount(arg)
    /\ UNCHANGED <<arg, compVars>>

---------------------------------------------------------------------------
(* The endpoints' responses *)

Categories == {"plumbers", "electricians", "carpenters", "painters"}

Components == {"Hero", "Stats"}

Url(c) == IF c = "Hero" THEN "/api/v1/artisans/counts" ELSE "/api/v1/stats/"

\* Bodies of the counts endpoint that parse as JSON: null, or a mapping from
\* some of the categories to counts.
CountsBodies ==
    { Null,
      Obj([k \in {"plumbers", "electricians", "carpenters"} |->
             CASE k = "plumbers" -> Num(0)
               [] k = "electricians" -> Num(42)
               [] OTHER -> Num(1500)]),
      Obj([k \in Categories |->
             CASE k = "plumbers" -> Num(7)
               [] k = "electricians" -> Num(999)
               [] k = "carpenters" -> Num(1000)
               [] OTHER -> Num(1150)]) }

StatsRecord(a, b, r) ==
    Obj([artisan_count |-> a, completed_bookings |-> b, average_rating |-> r])

\* Bodies of the stats endpoint that parse as JSON: null, or a PlatformStats.
StatsBodies ==
    { Null,
      StatsRecord(Num(12), Num(5), Null),
      StatsRecord(Num(3), Num(0), Num(0)),
      StatsRecord(Num(1200), Num(340), Frac(415, 100)) }

Bodies(c) == (IF c = "Hero" THEN CountsBodies ELSE StatsBodies) \cup {Malformed}

Statuses == {200, 500}

---------------------------------------------------------------------------
(* Rendering *)

Tagline(cat) ==
    CASE cat = "plumbers" -> <<"Near you">>
      [] cat = "electricians" -> <<"On demand">>
      [] cat = "carpenters" -> <<"Verified">>
      [] OTHER -> <<"Top rated">>

EmDash == <<"\\u2014">>

StarChar == "\\u2605"

\* `${x}`: the text of a value interpolated into a template.
Interpolate(v) ==
    CASE v.kind = "number" -> ToString(v.val)
      [] v.kind = "undefined" -> <<"undefined">>
      [] OTHER -> <<"null">>

HeroCardPerCategory(cs, cat) ==
    IF Truthy(cs) /\ Truthy(Get(cs, cat)) THEN formatCount(Get(cs, cat))
    ELSE Tagline(cat)

HeroCard(cs, cat) ==
    IF Truthy(cs) THEN formatCount(Get(cs, cat)) ELSE Tagline(cat)

RenderHero(cs) == [cat \in Categories |-> HeroCard(cs, cat)]

StatsArtisans(st) ==
    IF Truthy(st) THEN Interpolate(Get(st, "artisan_count")) \o <<"+">> ELSE EmDash

StatsBookings(st) ==
    IF Truthy(st) THEN Interpolate(Get(st, "completed_bookings")) \o <<"+">>
    ELSE EmDash

\* stats?.average_rating: undefined when stats is null.
OptRating(st) == IF st.kind = "null" THEN Undefined ELSE Get(st, "average_rating")

StatsRatingNullish(st) ==
    IF OptRating(st).kind = "number"
    THEN ToFixedText(OptRating(st).val, OptRating(st).den) \o <<StarChar>>
    ELSE <<"New">>

StatsRating(st) ==
    IF Truthy(OptRating(st))
    THEN ToFixedText(OptRating(st).val, OptRating(st).den) \o <<StarChar>>
    ELSE <<"New">>

RenderStats(st) ==
    [artisans |-> StatsArtisans(st),
     bookings |-> StatsBookings(st),
     rating |-> StatsRating(st)]

\* Nothing of the component is on the page.
Unrendered == <<>>

---------------------------------------------------------------------------
(* The components *)

\* fetch(url): the request a component's effect issues.
NewRequest(c, g) ==
    [comp |-> c, gen |-> g, method |-> "GET", url |-> Url(c), pc |-> "fetching",
     status |-> 0, body |-> Undefined, sets |-> <<>>]

EffectRunsEveryRender(firstRender) == TRUE

\* useEffect(..., []): the effect runs after the first render of a mount only.
EffectRuns(firstRender) == firstRender

\* The requests after a render of component c has been committed.
AfterRender(c, firstRender, rq) ==
    IF EffectRuns(firstRender) THEN Append(rq, NewRequest(c, gen')) ELSE rq

ApplySetterReset(c, v, cs, st) ==
    IF v = Null THEN <<v, v>> ELSE IF c = "Hero" THEN <<v, st>> ELSE <<cs, v>>

\* The two pieces of state after component c's setter is called with v:
\* setCounts belongs to Hero, setStats to Stats.
ApplySetter(c, v, cs, st) == IF c = "Hero" THEN <<v, st>> ELSE <<cs, v>>

RECURSIVE ApplySetters(_, _, _, _)
ApplySetters(c, vs, cs, st) ==
    IF vs = <<>> THEN <<cs, st>>
    ELSE LET new == ApplySetter(c, Head(vs), cs, st)
         IN ApplySetters(c, Tail(vs), new[1], new[2])

OnFulfilledThenCatch(data) == [sets |-> <<data, Null>>, end |-> "fulfilled"]

\* What the promise chain does once r.json() has fulfilled with data: the
\* second .then calls the setter with it and the .catch is passed over; the
\* chain's last promise is fulfilled.
OnFulfilled(data) == [sets |-> <<data>>, end |-> "fulfilled"]

OnRejectedUncaught == [sets |-> <<>>, end |-> "rejected"]

\* What the chain does once fetch or r.json() has rejected: the .then
\* handlers are passed over and the .catch calls the setter with null; the
\* rejection being handled, the chain's last promise is fulfilled.
OnRejected == [sets |-> <<Null>>, end |-> "fulfilled"]

\* A setter of an instance that is no longer displayed changes nothing shown.
Live(r) == mounted /\ r.gen = gen

\* Request i's promise chain runs to its end as `how` says, calling
\* component r.comp's setter; React re-renders when the state is no longer
\* the old one.
Settle(i, how) ==
    LET r == reqs[i]
        done == [reqs EXCEPT ![i].pc = how.end, ![i].sets = @ \o how.sets]
        new == ApplySetters(r.comp, how.sets, counts, stats)
    IN /\ gen' = gen
       /\ mounted' = mounted
       /\ IF Live(r)
          THEN /\ counts' = new[1]
               /\ stats' = new[2]
               /\ heroView' = RenderHero(counts')
               /\ statsView' = RenderStats(stats')
               /\ reqs' = IF <<counts', stats'>> # <<counts, stats>>
                          THEN AfterRender(r.comp, FALSE, done)
                          ELSE done
          ELSE /\ reqs' = done
               /\ UNCHANGED <<counts, stats, heroView, statsView>>

Init ==
    /\ arg = Undefined
    /\ res = NotFormatted
    /\ mounted = FALSE
    /\ gen = 0
    /\ counts = Null
    /\ stats = Null
    /\ heroView = Unrendered
    /\ statsView = Unrendered
    /\ reqs = <<>>

\* The page is displayed: Hero renders with its Stats child, both with null
\* state, and the effects run, the child's first.
Mount ==
    /\ ~mounted
    /\ gen < MaxMounts
    /\ mounted' = TRUE
    /\ gen' = gen + 1
    /\ counts' = Null
    /\ stats' = Null
    /\ heroView' = RenderHero(counts')
    /\ statsView' = RenderStats(stats')
    /\ reqs' = AfterRender("Hero", TRUE, AfterRender("Stats", TRUE, reqs))
    /\ UNCHANGED <<arg, res>>

\* The viewer navigates away; requests in flight are not cancelled.
Unmount ==
    /\ mounted
    /\ mounted' = FALSE
    /\ counts' = Null
    /\ stats' = Null
    /\ heroView' = Unrendered
    /\ statsView' = Unrendered
    /\ UNCHANGED <<arg, res, gen, reqs>>

\* fetch's promise fulfils with a Response, whatever its HTTP status, and
\* .then((r) => r.json()) starts reading the body.
FetchResolves(i, s, b) ==
    /\ reqs[i].pc = "fetching"
    /\ reqs' = [reqs EXCEPT ![i].pc = "parsing", ![i].status = s, ![i].body = b]
    /\ UNCHANGED <<arg, res, mounted, gen, counts, stats, heroView, statsView>>

\* fetch's promise rejects (a network failure): .catch(() => set...(null)).
FetchRejects(i) ==
    /\ reqs[i].pc = "fetching"
    /\ Settle(i, OnRejected)
    /\ UNCHANGED <<arg, res>>

\* r.json() fulfils with the parsed body: .then((data) => set...(data)).
JsonResolves(i) ==
    /\ reqs[i].pc = "parsing"
    /\ reqs[i].body # Malformed
    /\ Settle(i, OnFulfilled(reqs[i].body))
    /\ UNCHANGED <<arg, res>>

\* r.json() rejects, the body not being JSON: .catch(() => set...(null)).
JsonRejects(i) ==
    /\ reqs[i].pc = "parsing"
    /\ reqs[i].body = Malformed
    /\ Settle(i, OnRejected)
    /\ UNCHANGED <<arg, res>>

Respond ==
    \E i \in DOMAIN reqs : \E s \in Statuses : \E b \in Bodies(reqs[i].comp) :
        FetchResolves(i, s, b)

NetworkFailure == \E i \in DOMAIN reqs : FetchRejects(i)

Parsed == \E i \in DOMAIN reqs : JsonResolves(i)

ParseFailure == \E i \in DOMAIN reqs : JsonRejects(i)

Next ==
    \/ Mount
    \/ Unmount
    \/ Respond
    \/ NetworkFailure
    \/ Parsed
    \/ ParseFailure

Spec == Init /\ [][Next]_vars

InitFormat ==
    /\ arg \in FormatInputs
    /\ res = NotFormatted
    /\ mounted = FALSE
    /\ gen = 0
    /\ counts = Null
    /\ stats = Null
    /\ heroView = Unrendered
    /\ statsView = Unrendered
    /\ reqs = <<>>

NextFormat == FormatCall

SpecFormat == InitFormat /\ [][NextFormat]_vars

---------------------------------------------------------------------------
(* Properties of formatCount, checked under SpecFormat *)

Formatted == res # NotFormatted

IsCount(v) == v.kind = "number" /\ v.den = 1

Digits == {"0", "1", "2", "3", "4", "5", "6", "7", "8", "9"}

DigitValue(ch) == CHOOSE d \in 0..9 : DigitChar(d) = ch

RECURSIVE DecimalValue(_)
\* The number a sequence of digit characters denotes.
DecimalValue(ds) ==
    IF ds = <<>> THEN 0
    ELSE 10 * DecimalValue(SubSeq(ds, 1, Len(ds) - 1)) + DigitValue(ds[Len(ds)])

\* ds is the decimal numeral of n: digits only, no leading zero.
IsNumeral(ds, n) ==
    /\ Len(ds) >= 1
    /\ \A k \in 1..Len(ds) : ds[k] \in Digits
    /\ Len(ds) > 1 => ds[1] # "0"
    /\ DecimalValue(ds) = n

\* C1: formatCount returns the "coming soon" placeholder for an input that is
\* undefined or 0, and for no input that is an integer count of 1 or more.
FormatPlaceholder ==
    Formatted =>
        (res = <<"Coming soon">> <=> (arg.kind = "undefined" \/ arg.val = 0))

FormatPlaceholderWitness ==
    /\ Formatted
    /\ IsCount(arg)
    /\ arg.val = 0
    /\ res = <<"Coming soon">>

\* C2: for an integer count in 1..999 formatCount returns the numeral of the
\* count followed by " available", and never the K+ form.
FormatAvailable ==
    (Formatted /\ IsCount(arg) /\ arg.val \in 1..999) =>
        /\ Len(res) >= 2
        /\ res[Len(res)] = " available"
        /\ IsNumeral(SubSeq(res, 1, Len(res) - 1), arg.val)
        /\ \A k \in 1..Len(res) : res[k] # "K+"

FormatAvailableWitness ==
    /\ Formatted
    /\ IsCount(arg)
    /\ arg.val = 999
    /\ res = <<"9", "9", "9", " available">>

\* n / 1000 rounded to tenths, half-way cases up.
TenthsHalfUp(n) == (n + 50) \div 100

\* n / 1000 rounded to tenths, half-way cases to the even tenth.
TenthsHalfEven(n) ==
    IF n % 100 = 50 /\ (n \div 100) % 2 = 0 THEN n \div 100 ELSE (n + 50) \div 100

KText(t) == ToString(t \div 10) \o <<".", DigitChar(t % 10), "K+">>

\* C3: for an integer count of 1000 or more formatCount returns count/1000
\* rounded to one decimal place (under either usual rule for the half-way
\* cases), with exactly one digit after the point, followed by "K+".
FormatThousandsRounded ==
    (Formatted /\ IsCount(arg) /\ arg.val >= 1000) =>
        res \in {KText(TenthsHalfUp(arg.val)), KText(TenthsHalfEven(arg.val))}

---------------------------------------------------------------------------
(* Properties of the components, checked under Spec *)

Settled(r) == r.pc \in {"fulfilled", "rejected"}

\* The request failed: fetch rejected, or the body did not parse as JSON.
Failed(r) == Settled(r) /\ (r.status = 0 \/ r.body = Malformed)

\* The request ended with a parsed body.
Succeeded(r) == Settled(r) /\ r.status # 0 /\ r.body # Malformed

RequestsOf(c, g) == {i \in DOMAIN reqs : reqs[i].comp = c /\ reqs[i].gen = g}

\* C4: each display of Hero and of Stats has issued exactly one request, a GET
\* to the component's endpoint, from the moment it is displayed; no other
\* request exists, whatever has failed or re-rendered since.
OneRequestPerMount ==
    /\ \A g \in 1..gen : \A c \in Components : Cardinality(RequestsOf(c, g)) = 1
    /\ Len(reqs) = 2 * gen
    /\ \A i \in DOMAIN reqs :
         /\ reqs[i].method = "GET"
         /\ reqs[i].comp = "Hero" => reqs[i].url = "/api/v1/artisans/counts"
         /\ reqs[i].comp = "Stats" => reqs[i].url = "/api/v1/stats/"

OneRequestPerMountWitness ==
    /\ mounted
    /\ Len(reqs) = 2
    /\ \E i, j \in DOMAIN reqs :
         /\ reqs[i].comp = "Hero" /\ Failed(reqs[i])
         /\ reqs[j].comp = "Stats" /\ Succeeded(reqs[j])
         /\ stats = reqs[j].body
         /\ stats # Null

\* C5: a request whose promise chain has settled has had exactly one setter
\* call made for it, with the parsed data if it succeeded and with null if it
\* failed; a request still in flight has had none.
AppliedExactlyOnce ==
    \A i \in DOMAIN reqs :
        /\ Succeeded(reqs[i]) => reqs[i].sets = <<reqs[i].body>>
        /\ Failed(reqs[i]) => reqs[i].sets = <<Null>>
        /\ ~Settled(reqs[i]) => reqs[i].sets = <<>>

AppliedExactlyOnceWitness ==
    \E i, j \in DOMAIN reqs :
        /\ Succeeded(reqs[i]) /\ reqs[i].body # Null /\ Len(reqs[i].sets) = 1
        /\ Failed(reqs[j]) /\ Len(reqs[j].sets) = 1

HeroPlaceholders ==
    [plumbers |-> <<"Near you">>, electricians |-> <<"On demand">>,
     carpenters |-> <<"Verified">>, painters |-> <<"Top rated">>]

StatsPlaceholders == [artisans |-> EmDash, bookings |-> EmDash, rating |-> <<"New">>]

\* Component c of the page on display holds null and shows its placeholders.
ShowsFallback(c) ==
    IF c = "Hero" THEN counts = Null /\ heroView = HeroPlaceholders
    ELSE stats = Null /\ statsView = StatsPlaceholders

\* C6: when the fetch of a displayed component has failed (the request
\* rejected, or the body did not parse as JSON) the component's state is null,
\* it shows its placeholders, and the rejection has been handled.
FailureSwallowed ==
    \A i \in DOMAIN reqs :
        /\ reqs[i].pc # "rejected"
        /\ (Failed(reqs[i]) /\ Live(reqs[i])) => ShowsFallback(reqs[i].comp)

FailureSwallowedWitness ==
    /\ mounted
    /\ \E i, j \in DOMAIN reqs :
         /\ reqs[i].comp = "Hero" /\ reqs[i].pc = "fulfilled" /\ reqs[i].status = 0
         /\ reqs[j].comp = "Stats" /\ reqs[j].pc = "fulfilled"
         /\ reqs[j].body = Malformed
    /\ heroView = HeroPlaceholders
    /\ statsView = StatsPlaceholders

\* C7: a network failure, a response that is not JSON and a response with a
\* non-2xx status all leave the displayed component with null state and its
\* placeholders.
UniformFallback ==
    \A i \in DOMAIN reqs :
        (/\ Settled(reqs[i])
         /\ Live(reqs[i])
         /\ \/ reqs[i].status = 0
            \/ reqs[i].body = Malformed
            \/ reqs[i].status \notin 200..299) => ShowsFallback(reqs[i].comp)

\* The request the displayed instance of component c issued.
Current(c) == reqs[CHOOSE i \in DOMAIN reqs : reqs[i].comp = c /\ reqs[i].gen = gen]

\* C8: on the page on display each category card shows its static tagline
\* exactly when the counts state is null - as it is while the fetch is in
\* flight - and otherwise formatCount of the category's value in the fetched
\* mapping, which for a category absent from it is "Coming soon".
HeroCardsFollowCounts ==
    mounted =>
        /\ ~Settled(Current("Hero")) => counts = Null
        /\ \A cat \in Categories :
             /\ counts = Null <=> heroView[cat] = HeroPlaceholders[cat]
             /\ counts # Null => heroView[cat] = formatCount(Get(counts, cat))
             /\ (counts # Null /\ cat \notin DOMAIN counts.fields) =>
                    heroView[cat] = <<"Coming soon">>

HeroCardsFollowCountsWitness ==
    /\ mounted
    /\ counts # Null
    /\ "painters" \notin DOMAIN counts.fields
    /\ heroView["painters"] = <<"Coming soon">>
    /\ heroView["electricians"] = <<"4", "2", " available">>
    /\ heroView["carpenters"] = <<"1", ".", "5", "K+">>

\* text is a numeral, ".", one digit and the star, and the number it shows is
\* within half a tenth of val/den.
OneDecimalStar(text, val, den) ==
    /\ Len(text) >= 4
    /\ text[Len(text)] = StarChar
    /\ text[Len(text) - 1] \in Digits
    /\ text[Len(text) - 2] = "."
    /\ LET whole == SubSeq(text, 1, Len(text) - 3)
           t == 10 * DecimalValue(whole) + DigitValue(text[Len(text) - 1])
       IN /\ IsNumeral(whole, DecimalValue(whole))
          /\ 2 * (t * den - 10 * val) <= den
          /\ 2 * (10 * val - t * den) <= den

\* The two counts of the stats widget: "{value}+" exactly when the stats state
\* is non-null, an em dash otherwise.
StatsCountsShown ==
    /\ stats # Null <=> statsView.artisans # EmDash
    /\ stats # Null <=> statsView.bookings # EmDash
    /\ stats # Null =>
         /\ Len(statsView.artisans) >= 2
         /\ statsView.artisans[Len(statsView.artisans)] = "+"
         /\ IsNumeral(SubSeq(statsView.artisans, 1, Len(statsView.artisans) - 1),
                      stats.fields.artisan_count.val)
         /\ Len(statsView.bookings) >= 2
         /\ statsView.bookings[Len(statsView.bookings)] = "+"
         /\ IsNumeral(SubSeq(statsView.bookings, 1, Len(statsView.bookings) - 1),
                      stats.fields.completed_bookings.val)

RatingAbsent == stats = Null \/ stats.fields.average_rating = Null

\* C9 as claimed: the counts are "{value}+" exactly when the stats state is
\* non-null and an em dash otherwise; the rating is the average with one
\* decimal and a star whenever an average rating is present, and "New" exactly
\* when the stats state is null or the average rating is absent.
StatsShownAsClaimed ==
    mounted =>
        /\ StatsCountsShown
        /\ statsView.rating = <<"New">> <=> RatingAbsent
        /\ ~RatingAbsent =>
             OneDecimalStar(statsView.rating, stats.fields.average_rating.val,
                            stats.fields.average_rating.den)

\* C9: the counts are "{value}+" exactly when the stats state is non-null and
\* an em dash otherwise; the rating is the average with one decimal and a star
\* whenever an average rating other than 0 is present, and "New" exactly when
\* the stats state is null or the average rating is absent or 0.
StatsShown ==
    mounted =>
        /\ StatsCountsShown
        /\ statsView.rating = <<"New">> <=>
             (RatingAbsent \/ stats.fields.average_rating.val = 0)
        /\ (~RatingAbsent /\ stats.fields.average_rating.val # 0) =>
             OneDecimalStar(statsView.rating, stats.fields.average_rating.val,
                            stats.fields.average_rating.den)

StatsShownWitness ==
    /\ mounted
    /\ stats # Null
    /\ stats.fields.average_rating = Num(0)
    /\ statsView = [artisans |-> <<"3", "+">>, bookings |-> <<"0", "+">>,
                    rating |-> <<"New">>]

\* What the displayed component's state must be, given its own request alone.
OutcomeOf(r) == IF Succeeded(r) THEN r.body ELSE Null

\* The requests of component c are as they were.
SameRequests(c) ==
    \A i \in DOMAIN reqs : reqs[i].comp = c => reqs'[i] = reqs[i]

\* C10: while the page is on display the counts state and the cards follow
\* from the outcome of the counts request alone, and the stats state and the
\* widget from the outcome of the stats request alone; and a step in which the
\* requests of one component make no move leaves that component's state and
\* display as they were.
FetchesIndependent ==
    /\ [](mounted =>
            /\ counts = OutcomeOf(Current("Hero"))
            /\ stats = OutcomeOf(Current("Stats"))
            /\ heroView = RenderHero(OutcomeOf(Current("Hero")))
            /\ statsView = RenderStats(OutcomeOf(Current("Stats"))))
    /\ [][(mounted /\ mounted') =>
            /\ SameRequests("Hero") => UNCHANGED <<counts, heroView>>
            /\ SameRequests("Stats") => UNCHANGED <<stats, statsView>>]_vars

FetchesIndependentWitness ==
    /\ mounted
    /\ Failed(Current("Hero"))
    /\ Succeeded(Current("Stats"))
    /\ stats = Current("Stats").body
    /\ stats # Null
    /\ statsView.artisans = <<"1", "2", "0", "0", "+">>
    /\ heroView = HeroPlaceholders

====
